---- MODULE Spec2Model ----
(***************************************************************************)
(* Model of hotcold.py (asidko/binance-hotcold): the per-symbol            *)
(* classification (analyze_symbol, analyze_symbol_simple), the top-N       *)
(* selection and the scan loop of main, and the shared request semaphore.  *)
(*                                                                         *)
(* Prices are integers; every float the program derives from them (an      *)
(* average, a median, a percentage) is kept as an exact fraction           *)
(* [n, d] in lowest terms, so comparisons are those of the real numbers.   *)
(* IEEE rounding of the Python floats is not modelled.                     *)
(***************************************************************************)
EXTENDS Integers, Sequences, FiniteSets, TLC

VARIABLES
    args,            \* argparse.Namespace: simple, watch, no_spikes, spike_threshold, count
    \* one call of analyze_symbol / analyze_symbol_simple
    big_data,        \* response of the big-interval fetch
    short_data,      \* response of the short-interval fetch
    current_data,    \* response of the current-interval fetch
    ret,             \* the returned Optional[SymbolAnalysisResult]
    cpc,             \* position of the call: "call" | "returned"
    \* the selection of main (lines 400-436)
    results,         \* results: the per-symbol results of the pass, in completion order
    boosters_sorted, \* boosters_sorted after line 431
    losers_sorted,   \* losers_sorted after line 432
    final_results,   \* final_results after line 436
    rpc,             \* position of the selection: "select" | "selected"
    \* main and its tasks
    mpc,             \* position of main: "start" | "listing" | "gather" | "sleep" | "done"
    symbols,         \* symbols: the list get_usdt_symbols returned
    sem,             \* SEMAPHORE._value: the free permits
    waiters,         \* the tasks suspended in SEMAPHORE.acquire, oldest first
    task,            \* per symbol: pc "idle" | "wait" | "fly" | "done", the fetch it
                     \* is at (1..3), the responses it got (kept until main has
                     \* awaited the task), its return value
    doneq,           \* finished tasks that as_completed has not yet handed to main
    collected,       \* iterations of the as_completed loop done in this pass
    emitted,         \* tables printed in this pass
    passes,          \* passes started
    \* the tasks of a large universe, counted by where they are
    nsymbols,        \* len(symbols)
    qstages,         \* of each task suspended in SEMAPHORE.acquire, oldest first,
                     \* the fetch it is at
    flying,          \* per fetch (1..3), the tasks whose request is in flight
    finished         \* finished tasks that as_completed has not yet handed to main

classifyVars == <<big_data, short_data, current_data, ret, cpc>>
rankVars == <<results, boosters_sorted, losers_sorted, final_results, rpc>>
scanVars == <<mpc, symbols, sem, waiters, task, doneq, collected, emitted, passes>>
gateVars == <<nsymbols, qstages, flying, finished>>
vars == <<args, classifyVars, rankVars, scanVars, gateVars>>

\* the variables of a part of the program that a specification does not run
ClassifyIdle ==
    /\ big_data = [ok |-> FALSE, rows |-> <<>>]
    /\ short_data = [ok |-> FALSE, rows |-> <<>>]
    /\ current_data = [ok |-> FALSE, rows |-> <<>>]
    /\ ret = [some |-> FALSE]
    /\ cpc = "idle"

RankIdle ==
    /\ results = <<>>
    /\ boosters_sorted = <<>>
    /\ losers_sorted = <<>>
    /\ final_results = <<>>
    /\ rpc = "idle"

ScanIdle ==
    /\ mpc = "idle"
    /\ symbols = <<>>
    /\ sem = 0
    /\ waiters = <<>>
    /\ task = <<>>
    /\ doneq = <<>>
    /\ collected = 0
    /\ emitted = 0
    /\ passes = 0

GateIdle ==
    /\ nsymbols = 0
    /\ qstages = <<>>
    /\ flying = <<0, 0, 0>>
    /\ finished = 0

-----------------------------------------------------------------------------
(* Bounds of the model *)

\* longest candle series enumerated exhaustively as a fetch response
MaxLen == 2

-----------------------------------------------------------------------------
(* Exact fractions standing for Python floats *)

Abs(x) == IF x < 0 THEN -x ELSE x

Max2(a, b) == IF a >= b THEN a ELSE b

RECURSIVE GCD(_, _)
GCD(a, b) == IF b = 0 THEN a ELSE GCD(b, a % b)

\* the fraction n/d (d # 0) in lowest terms with a positive denominator
Rat(n, d) ==
    LET g == GCD(Abs(n), Abs(d))
        s == IF d < 0 THEN -1 ELSE 1
    IN  [n |-> (s * n) \div g, d |-> (s * d) \div g]

FromInt(i) == [n |-> i, d |-> 1]

RSub(a, b) == Rat(a.n * b.d - b.n * a.d, a.d * b.d)
RMul(a, b) == Rat(a.n * b.n, a.d * b.d)
\* a / b for b # 0 (Python raises ZeroDivisionError when b = 0)
RDiv(a, b) == Rat(a.n * b.d, a.d * b.n)
RAbs(a) == [n |-> Abs(a.n), d |-> a.d]
RLess(a, b) == a.n * b.d < b.n * a.d
RIsZero(a) == a.n = 0

-----------------------------------------------------------------------------
(* Sequences of integers *)

RECURSIVE SumSeq(_)
SumSeq(s) == IF s = <<>> THEN 0 ELSE Head(s) + SumSeq(Tail(s))

RECURSIVE InsertAsc(_, _)
InsertAsc(x, s) ==
    IF s = <<>> THEN <<x>>
    ELSE IF x < Head(s) THEN <<x>> \o s
    ELSE <<Head(s)>> \o InsertAsc(x, Tail(s))

\* sorted(values)
RECURSIVE SortAsc(_)
SortAsc(s) == IF s = <<>> THEN <<>> ELSE InsertAsc(Head(s), SortAsc(Tail(s)))

Reverse(s) == [i \in 1..Len(s) |-> s[Len(s) + 1 - i]]

\* sorted(values, reverse=True)
SortDesc(s) == Reverse(SortAsc(s))

\* s[:k] for k >= 0
Take(s, k) == SubSeq(s, 1, IF k < Len(s) THEN k ELSE Len(s))

\* max(...) and min(...) over a non-empty sequence
MaxOf(s) == SortDesc(s)[1]
MinOf(s) == SortAsc(s)[1]

Highs(candles) == [i \in 1..Len(candles) |-> candles[i].high]
Lows(candles) == [i \in 1..Len(candles) |-> candles[i].low]
Closes(candles) == [i \in 1..Len(candles) |-> candles[i].close]

-----------------------------------------------------------------------------
(* Aggregate statistics *)

\* int(len(candles) * ratio) for a ratio given as the fraction rn/rd
TopCount(len, rn, rd) == Max2((len * rn) \div rd, 1)

\* calculate_avg_max(candles, rn/rd)
calculate_avg_max(candles, rn, rd) ==
    LET top_x == TopCount(Len(candles), rn, rd)
        top_max == Take(SortDesc(Highs(candles)), top_x)
    IN  IF top_max = <<>> THEN FromInt(0) ELSE Rat(SumSeq(top_max), Len(top_max))

\* calculate_avg_min(candles, rn/rd)
calculate_avg_min(candles, rn, rd) ==
    LET bottom_x == TopCount(Len(candles), rn, rd)
        bottom_min == Take(SortAsc(Lows(candles)), bottom_x)
    IN  IF bottom_min = <<>> THEN FromInt(0) ELSE Rat(SumSeq(bottom_min), Len(bottom_min))

\* statistics.median of a sorted non-empty sequence
Median(sorted) ==
    LET n == Len(sorted)
    IN  IF n % 2 = 1 THEN FromInt(sorted[(n + 1) \div 2])
        ELSE Rat(sorted[n \div 2] + sorted[n \div 2 + 1], 2)

\* trimmed_median(prices, trim_percent=5) of a non-empty sequence
trimmed_median(prices) ==
    LET trim_count == (Len(prices) * 5) \div 100
        sorted == SortAsc(prices)
    IN  Median(SubSeq(sorted, trim_count + 1, Len(sorted) - trim_count))

\* statistics.mean of a non-empty sequence
Mean(prices) == Rat(SumSeq(prices), Len(prices))

-----------------------------------------------------------------------------
(* Fetch responses and analysis results *)

\* a kline row: candle[2], candle[3], candle[4] of the response
Candle(h, l, c) == [high |-> h, low |-> l, close |-> c]

\* fetch_json returned None
NoData == [ok |-> FALSE, rows |-> <<>>]
\* fetch_json returned the decoded JSON list
Data(rows) == [ok |-> TRUE, rows |-> rows]
\* Python truthiness of a response: neither None nor an empty list
Truthy(data) == data.ok /\ data.rows # <<>>

\* the function returned None
NoResult ==
    [some |-> FALSE, category |-> "none", symbol |-> "", change_percent |-> FromInt(0),
     change_percent_big_interval |-> FromInt(0), marks |-> <<>>, price |-> FromInt(0)]

SymbolAnalysisResult(category, symbol, change_percent, change_percent_big_interval, marks, price) ==
    [some |-> TRUE, category |-> category, symbol |-> symbol,
     change_percent |-> change_percent,
     change_percent_big_interval |-> change_percent_big_interval,
     marks |-> marks, price |-> price]

\* ((x - ref) / ref) * 100, for ref # 0
Pct(x, ref) == RMul(RDiv(RSub(x, ref), ref), FromInt(100))

\* args.big_avg_ratio, args.short_avg_ratio = 0.5, 0.5
AvgRatioNum == 1
AvgRatioDen == 2

\* line 231: abs((short_close_avg - big_median) / big_median) < args.spike_threshold / 100
SpikeIsValid(short_close_avg, big_median, spike_threshold) ==
    RLess(RAbs(RDiv(RSub(short_close_avg, big_median), big_median)), Rat(spike_threshold, 100))

\* the booster test with "or" for "and"
BoosterCondition_Or(short_by_max, big_by_max) == short_by_max \/ big_by_max

\* line 251: is_short_interval_satisfied_by_max and is_big_interval_satisfied_by_max
BoosterCondition(short_by_max, big_by_max) == short_by_max /\ big_by_max

\* the loser test with "or" for "and"
LoserCondition_Or(short_by_min, big_by_min) == short_by_min \/ big_by_min

\* line 257: is_short_interval_satisfied_by_min and is_big_interval_satisfied_by_min
LoserCondition(short_by_min, big_by_min) == short_by_min /\ big_by_min

\* line 253: the booster's change_percent
BoosterChange(current_max, short_max_avg, big_max_avg) == Pct(current_max, short_max_avg)

\* analyze_symbol, from the three responses on (lines 214-285)
AnalyzeSymbol(symbol, a, big, short, cur) ==
    IF ~(Truthy(big) /\ Truthy(short) /\ Truthy(cur)) THEN NoResult
    ELSE
    LET big_max_avg == calculate_avg_max(big.rows, AvgRatioNum, AvgRatioDen)
        short_max_avg == calculate_avg_max(short.rows, AvgRatioNum, AvgRatioDen)
        current_max == FromInt(MaxOf(Highs(cur.rows)))
        big_min_avg == calculate_avg_min(big.rows, AvgRatioNum, AvgRatioDen)
        short_min_avg == calculate_avg_min(short.rows, AvgRatioNum, AvgRatioDen)
        current_min == FromInt(MinOf(Lows(cur.rows)))
        big_median == trimmed_median(Closes(big.rows))
        short_close_avg == Mean(Closes(short.rows))
        is_big_interval_satisfied_by_max == RLess(big_max_avg, current_max)
        is_short_interval_satisfied_by_max == RLess(short_max_avg, current_max)
        is_big_interval_satisfied_by_min == RLess(current_min, big_min_avg)
        is_short_interval_satisfied_by_min == RLess(current_min, short_min_avg)
        \* the marks of lines 247-248 are written "short" and "big"
        marks ==
            (IF is_short_interval_satisfied_by_max \/ is_short_interval_satisfied_by_min
             THEN <<"short">> ELSE <<>>)
            \o (IF is_big_interval_satisfied_by_max \/ is_big_interval_satisfied_by_min
                THEN <<"big">> ELSE <<>>)
    IN
    IF a.no_spikes /\ RIsZero(big_median) THEN NoResult    \* ZeroDivisionError
    ELSE IF a.no_spikes /\ ~SpikeIsValid(short_close_avg, big_median, a.spike_threshold)
    THEN NoResult
    ELSE IF BoosterCondition(is_short_interval_satisfied_by_max,
                             is_big_interval_satisfied_by_max) THEN
        IF RIsZero(short_max_avg) \/ RIsZero(big_max_avg) THEN NoResult
        ELSE SymbolAnalysisResult("booster", symbol,
                                  BoosterChange(current_max, short_max_avg, big_max_avg),
                                  Pct(current_max, big_max_avg), marks, current_max)
    ELSE IF LoserCondition(is_short_interval_satisfied_by_min,
                           is_big_interval_satisfied_by_min) THEN
        IF RIsZero(short_min_avg) \/ RIsZero(big_min_avg) THEN NoResult
        ELSE SymbolAnalysisResult("loser", symbol, Pct(current_min, short_min_avg),
                                  Pct(current_min, big_min_avg), marks, current_min)
    ELSE
        IF RIsZero(short_max_avg) \/ RIsZero(short_min_avg) THEN NoResult
        ELSE
        LET change_percent_up == Pct(current_max, short_max_avg)
            change_percent_down == Pct(current_min, short_min_avg)
        IN  IF ~RLess(RAbs(change_percent_up), RAbs(change_percent_down)) THEN
                IF RIsZero(big_max_avg) THEN NoResult
                ELSE SymbolAnalysisResult("neutral", symbol, change_percent_up,
                                          Pct(current_max, big_max_avg), marks, current_max)
            ELSE
                IF RIsZero(big_min_avg) THEN NoResult
                ELSE SymbolAnalysisResult("neutral", symbol, change_percent_down,
                                          Pct(current_min, big_min_avg), marks, current_min)

\* a neutral whose change is taken against current_min
SimpleNeutralReference_Min(current_max, current_min) == current_min

\* lines 160-161: the neutral's change_percent is change_percent_up, taken
\* against current_max
SimpleNeutralReference(current_max, current_min) == current_max

\* analyze_symbol_simple, from the response on (lines 130-175)
AnalyzeSymbolSimple(symbol, cur) ==
    IF ~Truthy(cur) THEN NoResult                      \* TypeError / IndexError
    ELSE
    LET current_data_last == cur.rows[Len(cur.rows)]
        rest == SubSeq(cur.rows, 1, Len(cur.rows) - 1)
        current_price == FromInt(current_data_last.close)
        current_max == IF Len(rest) >= 10 THEN calculate_avg_max(rest, 1, 5)
                       ELSE FromInt(MaxOf(Highs(rest)))
        current_min == IF Len(rest) >= 10 THEN calculate_avg_min(rest, 1, 5)
                       ELSE FromInt(MinOf(Lows(rest)))
        reference == SimpleNeutralReference(current_max, current_min)
    IN
    IF rest = <<>> THEN NoResult                       \* max() of an empty sequence
    ELSE IF RLess(current_max, current_price) THEN
        IF RIsZero(current_max) THEN NoResult
        ELSE SymbolAnalysisResult("booster", symbol, Pct(current_price, current_max),
                                  FromInt(0), <<>>, current_price)
    ELSE IF RLess(current_price, current_min) THEN
        IF RIsZero(current_min) THEN NoResult
        ELSE SymbolAnalysisResult("loser", symbol, Pct(current_price, current_min),
                                  FromInt(0), <<>>, current_price)
    ELSE
        IF RIsZero(reference) THEN NoResult
        ELSE SymbolAnalysisResult("neutral", symbol, Pct(current_price, reference),
                                  FromInt(0), <<>>, current_price)

-----------------------------------------------------------------------------
(* The classification of one symbol over enumerated responses *)

\* kline rows the enumerated responses are built from: a zero row, a flat row
\* and a wide row (high 110, low 95, close 106)
CandleSet == {Candle(0, 0, 0), Candle(100, 100, 100), Candle(110, 95, 106)}

SeriesUpTo(n) == UNION {[1..k -> CandleSet] : k \in 1..n}

\* three further responses: a flat row at 95; four rows, whose top and bottom
\* halves hold two rows each; eleven rows, the shortest series whose reference
\* window in simple mode has the 10 rows of line 138
ExtraSeries ==
    {<<Candle(95, 95, 95)>>,
     <<Candle(110, 95, 106), Candle(100, 100, 100), Candle(100, 100, 100),
       Candle(100, 100, 100)>>,
     [i \in 1..11 |-> IF i \in {1, 11} THEN Candle(110, 95, 106)
                                      ELSE Candle(100, 100, 100)]}

\* what fetch_json can return for a klines request
Responses == {NoData, Data(<<>>)} \cup {Data(r) : r \in SeriesUpTo(MaxLen) \cup ExtraSeries}

\* --spike-threshold values (the default is 5%)
SpikeThresholds == {5, 6}

\* --count default
DefaultCount == 5

Args(simple, watch, no_spikes, spike_threshold, count) ==
    [simple |-> simple, watch |-> watch, no_spikes |-> no_spikes,
     spike_threshold |-> spike_threshold, count |-> count]

ClassifyArgs ==
    {Args(FALSE, FALSE, FALSE, 5, DefaultCount)}
    \cup {Args(FALSE, FALSE, TRUE, t, DefaultCount) : t \in SpikeThresholds}

ClassifyInit ==
    /\ RankIdle
    /\ ScanIdle
    /\ GateIdle
    /\ cpc = "call"
    /\ ret = NoResult
    /\ \/ /\ args \in ClassifyArgs
          /\ big_data \in Responses
          /\ short_data \in Responses
          /\ current_data \in Responses
       \/ /\ args = Args(TRUE, FALSE, FALSE, 5, DefaultCount)
          /\ big_data = NoData
          /\ short_data = NoData
          /\ current_data \in Responses

\* analyze_symbol(session, symbol, args) once its three fetches have returned
CallAnalyzeSymbol ==
    /\ cpc = "call"
    /\ ~args.simple
    /\ ret' = AnalyzeSymbol("BTCUSDT", args, big_data, short_data, current_data)
    /\ cpc' = "returned"
    /\ UNCHANGED <<args, big_data, short_data, current_data, rankVars, scanVars, gateVars>>

\* analyze_symbol_simple(session, symbol, args) once its fetch has returned
CallAnalyzeSymbolSimple ==
    /\ cpc = "call"
    /\ args.simple
    /\ ret' = AnalyzeSymbolSimple("BTCUSDT", current_data)
    /\ cpc' = "returned"
    /\ UNCHANGED <<args, big_data, short_data, current_data, rankVars, scanVars, gateVars>>

ClassifyNext ==
    \/ CallAnalyzeSymbol
    \/ CallAnalyzeSymbolSimple

SpecClassify == ClassifyInit /\ [][ClassifyNext]_vars

-----------------------------------------------------------------------------
(* The top-N selection of main *)

RECURSIVE InsertByChangeDesc(_, _)
InsertByChangeDesc(x, s) ==
    IF s = <<>> THEN <<x>>
    ELSE IF RLess(Head(s).change_percent, x.change_percent) THEN <<x>> \o s
    ELSE <<Head(s)>> \o InsertByChangeDesc(x, Tail(s))

\* sorted(rs, key=lambda x: x.change_percent, reverse=True): stable, so equal
\* keys keep the order of rs
RECURSIVE SortByChangeDesc(_)
SortByChangeDesc(rs) ==
    IF rs = <<>> THEN <<>>
    ELSE InsertByChangeDesc(rs[Len(rs)], SortByChangeDesc(SubSeq(rs, 1, Len(rs) - 1)))

RECURSIVE InsertByChangeAsc(_, _)
InsertByChangeAsc(x, s) ==
    IF s = <<>> THEN <<x>>
    ELSE IF RLess(x.change_percent, Head(s).change_percent) THEN <<x>> \o s
    ELSE <<Head(s)>> \o InsertByChangeAsc(x, Tail(s))

\* sorted(rs, key=lambda x: x.change_percent): stable
RECURSIVE SortByChangeAsc(_)
SortByChangeAsc(rs) ==
    IF rs = <<>> THEN <<>>
    ELSE InsertByChangeAsc(rs[Len(rs)], SortByChangeAsc(SubSeq(rs, 1, Len(rs) - 1)))

IsCategory(res, category) == res.category = category

\* lines 401-403
Boosters(rs) == SelectSeq(rs, LAMBDA res : IsCategory(res, "booster"))
Losers(rs) == SelectSeq(rs, LAMBDA res : IsCategory(res, "loser"))
Neutrals(rs) == SelectSeq(rs, LAMBDA res : IsCategory(res, "neutral"))

\* the positive filter with ">=" for ">"
IsPositive_NonNegative(res) == ~RLess(res.change_percent, FromInt(0))

\* line 410: res.change_percent > 0
IsPositive(res) == RLess(FromInt(0), res.change_percent)
\* the negative filter copied from the booster block with its "> 0" kept
IsNegative_CopiedSign(res) == RLess(FromInt(0), res.change_percent)

\* line 422: res.change_percent < 0
IsNegative(res) == RLess(res.change_percent, FromInt(0))

\* line 412: needed = top_count - len(boosters_sorted)
Needed(top_count, len) == top_count - len

\* lines 407-416 and 431
BoostersSelected(rs, top_count) ==
    LET sorted == SortByChangeDesc(Boosters(rs))
        positive_neutrals_sorted == SortByChangeDesc(SelectSeq(Neutrals(rs), IsPositive))
        filled == IF Len(sorted) < top_count
                  THEN sorted \o Take(positive_neutrals_sorted, Needed(top_count, Len(sorted)))
                  ELSE Take(sorted, top_count)
    IN  Take(filled, top_count)

\* lines 419-428 and 432
LosersSelected(rs, top_count) ==
    LET sorted == SortByChangeAsc(Losers(rs))
        negative_neutrals_sorted == SortByChangeAsc(SelectSeq(Neutrals(rs), IsNegative))
        filled == IF Len(sorted) < top_count
                  THEN sorted \o Take(negative_neutrals_sorted, Needed(top_count, Len(sorted)))
                  ELSE Take(sorted, top_count)
    IN  Take(filled, top_count)

\* lines 435-436
FinalResults(rs, top_count) ==
    SortByChangeDesc(BoostersSelected(rs, top_count) \o LosersSelected(rs, top_count))

-----------------------------------------------------------------------------
(* The selection over enumerated result lists *)

\* most results of one pass
MaxResults == 4
\* largest --count
MaxCount == 3

\* change_percent values of the enumerated results: a booster's is positive,
\* a loser's negative, a neutral's of either sign or zero
RankChoices ==
    {[category |-> "booster", change |-> c] : c \in {1, 2}}
    \cup {[category |-> "loser", change |-> c] : c \in {-2, -1}}
    \cup {[category |-> "neutral", change |-> c] : c \in {-1, 0, 1, 2}}

\* the i-th result of the pass; the universe lists each symbol once
RankResult(i, choice) ==
    SymbolAnalysisResult(choice.category, ToString(i), FromInt(choice.change),
                         FromInt(0), <<>>, FromInt(100))

RankInit ==
    /\ ClassifyIdle
    /\ ScanIdle
    /\ GateIdle
    /\ rpc = "select"
    /\ \E n \in 0..MaxCount : args = Args(FALSE, FALSE, FALSE, 5, n)
    /\ \E len \in 0..MaxResults : \E f \in [1..len -> RankChoices] :
          results = [i \in 1..len |-> RankResult(i, f[i])]
    /\ boosters_sorted = <<>>
    /\ losers_sorted = <<>>
    /\ final_results = <<>>

\* main, lines 400-436, on the gathered results
SelectTop ==
    /\ rpc = "select"
    /\ boosters_sorted' = BoostersSelected(results, args.count)
    /\ losers_sorted' = LosersSelected(results, args.count)
    /\ final_results' = FinalResults(results, args.count)
    /\ rpc' = "selected"
    /\ UNCHANGED <<args, results, classifyVars, scanVars, gateVars>>

RankNext == SelectTop

SpecRank == RankInit /\ [][RankNext]_vars

-----------------------------------------------------------------------------
(* The scan loop of main over a small universe, every symbol a task *)

\* line 24
MAX_CONCURRENCY == 20

\* most passes counted; a watch run goes on, its count stays at this value
MaxPasses == 2

\* the USDT symbols the exchange may list
Universe == <<"BTCUSDT", "ETHUSDT">>

\* the lists get_usdt_symbols can return: any sub-list of the universe
Listings ==
    {SelectSeq(Universe, LAMBDA x : x \in keep) : keep \in SUBSET {Universe[i] : i \in 1..Len(Universe)}}

\* what fetch_json returns for a klines request in the scan: None, an empty
\* list, a zero row, a flat row, a flat row followed by a wide one
ScanResponses ==
    {NoData, Data(<<>>), Data(<<Candle(0, 0, 0)>>), Data(<<Candle(100, 100, 100)>>),
     Data(<<Candle(100, 100, 100), Candle(110, 95, 106)>>)}

\* further responses of a simple-mode scan, the last row being the current
\* candle: a close inside the range of the row before it; a close at its high;
\* a close below its low; eleven rows, whose reference window has the 10 rows
\* of line 138 (current_max 105, current_min 195/2); a series of negative
\* prices, which float() accepts as it does any number
SimpleScanResponses ==
    {Data(<<Candle(110, 95, 106), Candle(100, 100, 100)>>),
     Data(<<Candle(100, 100, 100), Candle(100, 100, 100)>>),
     Data(<<Candle(100, 100, 100), Candle(95, 95, 95)>>),
     Data([i \in 1..11 |-> IF i = 1 THEN Candle(110, 95, 106) ELSE Candle(100, 100, 100)]),
     Data(<<Candle(-100, -300, -200), Candle(-200, -200, -200)>>)}

\* the responses a klines request of the scan can get under arguments a
ScanResponsesOf(a) == IF a.simple THEN ScanResponses \cup SimpleScanResponses ELSE ScanResponses

ScanArgs ==
    {Args(TRUE, w, FALSE, 5, c) : w \in BOOLEAN, c \in {1, 2}}
    \cup {Args(FALSE, w, n, 5, 1) : w \in BOOLEAN, n \in BOOLEAN}

\* fetches of one task: one in simple mode, big, short and current otherwise
Fetches(a) == IF a.simple THEN 1 ELSE 3

IdleTask == [pc |-> "idle", stage |-> 0, data |-> <<>>, ret |-> NoResult]

\* an acquire that never suspends
CanAcquire_Always(value) == TRUE

\* "async with SEMAPHORE" can enter without suspending (line 78)
CanAcquire(value) == value > 0

\* the tasks of a pass run to their first fetch (lines 378-394, 78): while
\* permits are free a task takes one and its request is in flight, the others
\* suspend in acquire.  as_completed starts the tasks in no specified order;
\* the list order stands for it.
RECURSIVE StartTasks(_, _, _, _)
StartTasks(syms, value, waiting, tasks) ==
    IF syms = <<>> THEN [sem |-> value, waiters |-> waiting, task |-> tasks]
    ELSE IF CanAcquire(value)
         THEN StartTasks(Tail(syms), value - 1, waiting,
                         [tasks EXCEPT ![Head(syms)] =
                             [pc |-> "fly", stage |-> 1, data |-> <<>>, ret |-> NoResult]])
         ELSE StartTasks(Tail(syms), value, Append(waiting, Head(syms)),
                         [tasks EXCEPT ![Head(syms)] =
                             [pc |-> "wait", stage |-> 1, data |-> <<>>, ret |-> NoResult]])

\* SEMAPHORE.release() at the end of "async with" (line 78): the permit goes to
\* the oldest waiter, whose request is then in flight, or back to the value
Release(value, waiting, tasks) ==
    IF waiting # <<>>
    THEN [sem |-> value, waiters |-> Tail(waiting),
          task |-> [tasks EXCEPT ![Head(waiting)].pc = "fly"]]
    ELSE [sem |-> value + 1, waiters |-> waiting, task |-> tasks]

ScanInit ==
    /\ ClassifyIdle
    /\ GateIdle
    /\ args \in ScanArgs
    /\ mpc = "start"
    /\ symbols = <<>>
    /\ sem = MAX_CONCURRENCY
    /\ waiters = <<>>
    /\ task = [s \in {Universe[i] : i \in 1..Len(Universe)} |-> IdleTask]
    /\ doneq = <<>>
    /\ collected = 0
    /\ emitted = 0
    /\ passes = 0
    /\ results = <<>>
    /\ boosters_sorted = <<>>
    /\ losers_sorted = <<>>
    /\ final_results = <<>>
    /\ rpc = "idle"

\* main up to the request of get_usdt_symbols (lines 369-371, 88, 78-79)
ListRequest ==
    /\ mpc = "start"
    /\ CanAcquire(sem)
    /\ sem' = sem - 1
    /\ mpc' = "listing"
    /\ UNCHANGED <<args, classifyVars, gateVars, rankVars, symbols, waiters, task, doneq,
                   collected, emitted, passes>>

\* an empty listing that, in watch mode, sleeps and tries a pass again
ListReturnEmpty_Retry ==
    /\ mpc = "listing"
    /\ sem' = sem + 1
    /\ symbols' = <<>>
    /\ mpc' = IF args.watch THEN "sleep" ELSE "done"
    /\ UNCHANGED <<args, classifyVars, gateVars, rankVars, waiters, task, doneq, collected,
                   emitted, passes>>

\* the listing came back empty or failed: main prints and returns (lines 89-90, 372-374)
ListReturnEmpty ==
    /\ mpc = "listing"
    /\ sem' = sem + 1
    /\ symbols' = <<>>
    /\ mpc' = "done"
    /\ UNCHANGED <<args, classifyVars, gateVars, rankVars, waiters, task, doneq, collected,
                   emitted, passes>>

\* the first statements of a pass (lines 377-394): a task per symbol, results = [].
\* The lists of the pass before are dead (lines 401-436 rebind them before any
\* read) and are dropped here.
BeginPass(syms, value) ==
    LET started == StartTasks(syms, value, <<>>, task)
    IN  /\ boosters_sorted' = <<>>
        /\ losers_sorted' = <<>>
        /\ final_results' = <<>>
        /\ sem' = started.sem
        /\ waiters' = started.waiters
        /\ task' = started.task
        /\ doneq' = <<>>
        /\ collected' = 0
        /\ emitted' = 0
        /\ results' = <<>>
        /\ passes' = IF passes < MaxPasses THEN passes + 1 ELSE passes
        /\ mpc' = "gather"

\* the listing came back with symbols: the first pass begins (lines 91-92, 376-394)
ListReturnSymbols ==
    /\ mpc = "listing"
    /\ \E l \in Listings :
          /\ l # <<>>
          /\ symbols' = l
          /\ BeginPass(l, sem + 1)
    /\ UNCHANGED <<args, classifyVars, gateVars, rpc>>

\* a klines request of task s returns resp: fetch_json leaves "async with"
\* (lines 76-84) and the task runs on, into its next fetch or to its return
FetchReturn(s, resp) ==
    /\ mpc = "gather"
    /\ task[s].pc = "fly"
    /\ LET released == Release(sem, waiters, task)
           held == Append(task[s].data, resp)
       IN  IF task[s].stage < Fetches(args)
           THEN \* the next fetch_json of analyze_symbol (lines 203, 208)
                /\ IF CanAcquire(released.sem)
                   THEN /\ sem' = released.sem - 1
                        /\ waiters' = released.waiters
                        /\ task' = [released.task EXCEPT
                                       ![s] = [pc |-> "fly", stage |-> task[s].stage + 1,
                                               data |-> held, ret |-> NoResult]]
                   ELSE /\ sem' = released.sem
                        /\ waiters' = Append(released.waiters, s)
                        /\ task' = [released.task EXCEPT
                                       ![s] = [pc |-> "wait", stage |-> task[s].stage + 1,
                                               data |-> held, ret |-> NoResult]]
                /\ doneq' = doneq
           ELSE \* the last response: classify and return
                /\ sem' = released.sem
                /\ waiters' = released.waiters
                /\ task' = [released.task EXCEPT
                               ![s] = [pc |-> "done", stage |-> task[s].stage, data |-> held,
                                       ret |-> IF args.simple
                                               THEN AnalyzeSymbolSimple(s, resp)
                                               ELSE AnalyzeSymbol(s, args, held[1], held[2],
                                                                  held[3])]]
                /\ doneq' = Append(doneq, s)
    /\ UNCHANGED <<args, classifyVars, gateVars, rankVars, mpc, symbols, collected, emitted, passes>>

\* a loop that ends with the first finished task
LoopOver_FirstCompleted(count, syms) == count >= 1

\* the as_completed loop is over once every task was awaited (line 394)
LoopOver(count, syms) == count = Len(syms)

\* results.append(result) without the "if result" test
Gathered_Unchecked(rs, result) == Append(rs, result)

\* results after "if result: results.append(result)" (lines 395-397)
Gathered(rs, result) == IF result.some THEN Append(rs, result) ELSE rs

\* the awaited task: the three responses a dual-window task held are dropped;
\* the one response of a simple-mode task is kept to the end of the pass, for
\* the properties that relate the table of the pass to the prices it was fed
Awaited(s) == IF args.simple THEN task ELSE [task EXCEPT ![s].data = <<>>]

\* one iteration of the as_completed loop, not the last (lines 394-398)
Collect ==
    /\ mpc = "gather"
    /\ doneq # <<>>
    /\ ~LoopOver(collected + 1, symbols)
    /\ results' = Gathered(results, task[Head(doneq)].ret)
    /\ task' = Awaited(Head(doneq))
    /\ doneq' = Tail(doneq)
    /\ collected' = collected + 1
    /\ UNCHANGED <<args, classifyVars, gateVars, boosters_sorted, losers_sorted,
                   final_results, rpc, mpc, symbols, sem, waiters, emitted, passes>>

\* the last iteration of the loop, the selection and the table (lines 394-445)
CollectLastAndPrint ==
    /\ mpc = "gather"
    /\ doneq # <<>>
    /\ LoopOver(collected + 1, symbols)
    /\ LET rs == Gathered(results, task[Head(doneq)].ret)
       IN  /\ results' = rs
           /\ boosters_sorted' = BoostersSelected(rs, args.count)
           /\ losers_sorted' = LosersSelected(rs, args.count)
           /\ final_results' = FinalResults(rs, args.count)
    /\ task' = Awaited(Head(doneq))
    /\ doneq' = Tail(doneq)
    /\ collected' = collected + 1
    /\ emitted' = emitted + 1
    /\ mpc' = IF args.watch THEN "sleep" ELSE "done"
    /\ UNCHANGED <<args, classifyVars, gateVars, rpc, symbols, sem, waiters, passes>>

\* asyncio.sleep(args.interval) returns and the next pass begins (lines 447, 376-394)
Wake ==
    /\ mpc = "sleep"
    /\ BeginPass(symbols, sem)
    /\ UNCHANGED <<args, classifyVars, gateVars, rpc, symbols>>

ScanNext ==
    \/ ListRequest
    \/ ListReturnEmpty
    \/ ListReturnSymbols
    \/ \E s \in DOMAIN task : \E resp \in ScanResponsesOf(args) : FetchReturn(s, resp)
    \/ Collect
    \/ CollectLastAndPrint
    \/ Wake

Spec == ScanInit /\ [][ScanNext]_vars

-----------------------------------------------------------------------------
(* The scan loop over a universe larger than the semaphore, tasks counted *)

\* symbols of the large universe
MaxSymbols == 21

\* len(symbols) of the listings tried: one symbol, as many as permits, more
GateSizes == {1, MAX_CONCURRENCY, MaxSymbols}

GateArgs == {Args(s, w, FALSE, 5, DefaultCount) : s \in BOOLEAN, w \in BOOLEAN}

\* n tasks run to their first fetch (lines 378-394, 78)
RECURSIVE GateStartTasks(_, _, _, _)
GateStartTasks(n, value, waiting, fl) ==
    IF n = 0 THEN [sem |-> value, qstages |-> waiting, flying |-> fl]
    ELSE IF CanAcquire(value)
         THEN GateStartTasks(n - 1, value - 1, waiting, [fl EXCEPT ![1] = @ + 1])
         ELSE GateStartTasks(n - 1, value, Append(waiting, 1), fl)

\* release() that returns the permit to the value and wakes nobody
GateRelease_NoWakeUp(value, waiting, fl) ==
    [sem |-> IF waiting # <<>> THEN value ELSE value + 1, qstages |-> waiting, flying |-> fl]

\* SEMAPHORE.release() at the end of "async with" (line 78), as Release
GateRelease(value, waiting, fl) ==
    IF waiting # <<>>
    THEN [sem |-> value, qstages |-> Tail(waiting),
          flying |-> [fl EXCEPT ![Head(waiting)] = @ + 1]]
    ELSE [sem |-> value + 1, qstages |-> waiting, flying |-> fl]

GateInit ==
    /\ ClassifyIdle
    /\ RankIdle
    /\ args \in GateArgs
    /\ mpc = "start"
    /\ sem = MAX_CONCURRENCY
    /\ symbols = <<>>
    /\ waiters = <<>>
    /\ task = <<>>
    /\ doneq = <<>>
    /\ collected = 0
    /\ emitted = 0
    /\ passes = 0
    /\ GateIdle

\* main up to the request of get_usdt_symbols (lines 369-371, 88, 78-79)
GateListRequest ==
    /\ mpc = "start"
    /\ CanAcquire(sem)
    /\ sem' = sem - 1
    /\ mpc' = "listing"
    /\ UNCHANGED <<args, classifyVars, rankVars, gateVars, symbols, waiters, task, doneq,
                   collected, emitted, passes>>

\* the listing came back empty or failed (lines 89-90, 372-374)
GateListReturnEmpty ==
    /\ mpc = "listing"
    /\ sem' = sem + 1
    /\ mpc' = "done"
    /\ UNCHANGED <<args, classifyVars, rankVars, gateVars, symbols, waiters, task, doneq,
                   collected, emitted, passes>>

\* the first statements of a pass (lines 377-394)
GateBeginPass(n, value) ==
    LET started == GateStartTasks(n, value, <<>>, <<0, 0, 0>>)
    IN  /\ sem' = started.sem
        /\ qstages' = started.qstages
        /\ flying' = started.flying
        /\ finished' = 0
        /\ collected' = 0
        /\ emitted' = 0
        /\ passes' = IF passes < MaxPasses THEN passes + 1 ELSE passes
        /\ mpc' = "gather"

\* the listing came back with n symbols (lines 91-92, 376-394)
GateListReturnSymbols ==
    /\ mpc = "listing"
    /\ \E n \in GateSizes :
          /\ nsymbols' = n
          /\ GateBeginPass(n, sem + 1)
    /\ UNCHANGED <<args, classifyVars, rankVars, symbols, waiters, task, doneq>>

\* the request of a task at fetch k returns (lines 76-84); the task runs on
GateFetchReturn(k) ==
    /\ mpc = "gather"
    /\ flying[k] > 0
    /\ LET released == GateRelease(sem, qstages, [flying EXCEPT ![k] = @ - 1])
       IN  IF k < Fetches(args)
           THEN /\ IF CanAcquire(released.sem)
                   THEN /\ sem' = released.sem - 1
                        /\ qstages' = released.qstages
                        /\ flying' = [released.flying EXCEPT ![k + 1] = @ + 1]
                   ELSE /\ sem' = released.sem
                        /\ qstages' = Append(released.qstages, k + 1)
                        /\ flying' = released.flying
                /\ finished' = finished
           ELSE /\ sem' = released.sem
                /\ qstages' = released.qstages
                /\ flying' = released.flying
                /\ finished' = finished + 1
    /\ UNCHANGED <<args, classifyVars, rankVars, mpc, symbols, waiters, task, doneq,
                   collected, emitted, passes, nsymbols>>

\* one iteration of the as_completed loop, not the last (lines 394-398)
GateCollect ==
    /\ mpc = "gather"
    /\ finished > 0
    /\ collected + 1 # nsymbols
    /\ finished' = finished - 1
    /\ collected' = collected + 1
    /\ UNCHANGED <<args, classifyVars, rankVars, mpc, symbols, sem, waiters, task, doneq,
                   emitted, passes, nsymbols, qstages, flying>>

\* the last iteration of the loop, the selection and the table (lines 394-445)
GateCollectLastAndPrint ==
    /\ mpc = "gather"
    /\ finished > 0
    /\ collected + 1 = nsymbols
    /\ finished' = finished - 1
    /\ collected' = collected + 1
    /\ emitted' = emitted + 1
    /\ mpc' = IF args.watch THEN "sleep" ELSE "done"
    /\ UNCHANGED <<args, classifyVars, rankVars, symbols, sem, waiters, task, doneq,
                   passes, nsymbols, qstages, flying>>

\* asyncio.sleep(args.interval) returns and the next pass begins (lines 447, 376-394)
GateWake ==
    /\ mpc = "sleep"
    /\ GateBeginPass(nsymbols, sem)
    /\ UNCHANGED <<args, classifyVars, rankVars, symbols, waiters, task, doneq, nsymbols>>

GateNext ==
    \/ GateListRequest
    \/ GateListReturnEmpty
    \/ GateListReturnSymbols
    \/ \E k \in 1..3 : GateFetchReturn(k)
    \/ GateCollect
    \/ GateCollectLastAndPrint
    \/ GateWake

SpecGate == GateInit /\ [][GateNext]_vars

\* every request returns or times out, the event loop runs every task that can
\* run, and the sleep ends
GateFairness ==
    /\ WF_vars(GateListRequest)
    /\ WF_vars(GateListReturnEmpty \/ GateListReturnSymbols)
    /\ \A k \in 1..3 : WF_vars(GateFetchReturn(k))
    /\ WF_vars(GateCollect)
    /\ WF_vars(GateCollectLastAndPrint)
    /\ WF_vars(GateWake)

LiveGate == GateInit /\ [][GateNext]_vars /\ GateFairness

-----------------------------------------------------------------------------
(* Properties of the classification (SpecClassify) *)

RLeq(a, b) == ~RLess(b, a)

\* a dual-window call has returned after three fetches that all brought rows
DualReturned ==
    /\ cpc = "returned"
    /\ ~args.simple
    /\ Truthy(big_data) /\ Truthy(short_data) /\ Truthy(current_data)

ObsBigMaxAvg == calculate_avg_max(big_data.rows, AvgRatioNum, AvgRatioDen)
ObsShortMaxAvg == calculate_avg_max(short_data.rows, AvgRatioNum, AvgRatioDen)
ObsBigMinAvg == calculate_avg_min(big_data.rows, AvgRatioNum, AvgRatioDen)
ObsShortMinAvg == calculate_avg_min(short_data.rows, AvgRatioNum, AvgRatioDen)
ObsCurrentMax == FromInt(MaxOf(Highs(current_data.rows)))
ObsCurrentMin == FromInt(MinOf(Lows(current_data.rows)))
ObsBigMedian == trimmed_median(Closes(big_data.rows))
ObsShortCloseAvg == Mean(Closes(short_data.rows))

\* |mean(short closes) - trimmed_median(big closes)| / trimmed_median(big closes),
\* for a non-zero median
ObsDeviation == RAbs(RDiv(RSub(ObsShortCloseAvg, ObsBigMedian), ObsBigMedian))

\* the spike filter is on and the call ends in it: the deviation is not below
\* the threshold, or the median is zero and the division raises
SpikeRejected ==
    /\ args.no_spikes
    /\ \/ RIsZero(ObsBigMedian)
       \/ ~RLess(ObsDeviation, Rat(args.spike_threshold, 100))

MaxBoth == RLess(ObsShortMaxAvg, ObsCurrentMax) /\ RLess(ObsBigMaxAvg, ObsCurrentMax)
MinBoth == RLess(ObsCurrentMin, ObsShortMinAvg) /\ RLess(ObsCurrentMin, ObsBigMinAvg)

IsBooster == ret.some /\ ret.category = "booster"
IsLoser == ret.some /\ ret.category = "loser"

\* C2 as stated: in dual-window mode, after three successful fetches and no spike
\* rejection, the result is a booster iff current_max exceeds both max averages,
\* and then change_percent = (current_max - short_max_avg) / short_max_avg * 100.
C2_AsStated ==
    (DualReturned /\ ~SpikeRejected) =>
        /\ IsBooster <=> MaxBoth
        /\ IsBooster => ret.change_percent = Pct(ObsCurrentMax, ObsShortMaxAvg)

\* C2 amended: the same, for a symbol whose short and big max averages are not
\* zero (with a zero average the division raises and the symbol is dropped).
C2_BoosterIffBothMax ==
    (DualReturned /\ ~SpikeRejected /\ ~RIsZero(ObsShortMaxAvg) /\ ~RIsZero(ObsBigMaxAvg)) =>
        /\ IsBooster <=> MaxBoth
        /\ IsBooster => ret.change_percent = Pct(ObsCurrentMax, ObsShortMaxAvg)

\* current_max 110 against short_max_avg 100 and big_max_avg 95: a booster at 10%
C2_Witness ==
    /\ DualReturned /\ ~SpikeRejected
    /\ ObsCurrentMax = FromInt(110)
    /\ ObsShortMaxAvg = FromInt(100)
    /\ ObsBigMaxAvg = FromInt(95)
    /\ IsBooster
    /\ ret.change_percent = FromInt(10)

\* C3 as stated: in dual-window mode, after three successful fetches and no spike
\* rejection, the result is a loser iff current_min is below both min averages,
\* also when the max conditions hold too; one min condition alone gives no loser.
C3_AsStated ==
    (DualReturned /\ ~SpikeRejected) => (IsLoser <=> MinBoth)

\* C3 amended: the result is a loser iff current_min is below both min averages
\* and current_max does not exceed both max averages (the booster test comes
\* first); one min condition alone gives no loser.
C3_LoserIffBothMinAndNotBooster ==
    (DualReturned /\ ~SpikeRejected) => (IsLoser <=> (MinBoth /\ ~MaxBoth))

\* current_min 95 against min averages of 100: a loser at -5%
C3_Witness ==
    /\ DualReturned /\ ~SpikeRejected
    /\ ObsCurrentMin = FromInt(95)
    /\ ObsShortMinAvg = FromInt(100)
    /\ MinBoth /\ ~MaxBoth
    /\ IsLoser
    /\ ret.change_percent = FromInt(-5)

\* C7 as stated: with spike rejection on, the symbol is dropped by the filter
\* exactly when the deviation exceeds spike_threshold percent; at a deviation
\* equal to the threshold it is kept.  Stated for non-zero median and averages,
\* where the filter is the only step that can drop the symbol.
C7_AsStated ==
    (/\ DualReturned
     /\ args.no_spikes
     /\ ~RIsZero(ObsBigMedian)
     /\ ~RIsZero(ObsShortMaxAvg) /\ ~RIsZero(ObsBigMaxAvg)
     /\ ~RIsZero(ObsShortMinAvg) /\ ~RIsZero(ObsBigMinAvg))
    => (~ret.some <=> RLess(Rat(args.spike_threshold, 100), ObsDeviation))

-----------------------------------------------------------------------------
(* Properties of the selection (SpecRank) *)

Indices(rs, category) == {i \in 1..Len(rs) : rs[i].category = category}
PositiveNeutralIndices(rs) ==
    {i \in Indices(rs, "neutral") : RLess(FromInt(0), rs[i].change_percent)}
Min2(a, b) == IF a <= b THEN a ELSE b
SymbolsOf(rs) == {rs[i].symbol : i \in 1..Len(rs)}
ElementsOf(rs) == {rs[i] : i \in 1..Len(rs)}
Descending(rs) ==
    \A i \in 1..Len(rs) : \A j \in 1..Len(rs) :
        i < j => RLeq(rs[j].change_percent, rs[i].change_percent)

\* C5: the selected booster list is the N boosters of largest change_percent
\* when N boosters exist, otherwise every booster followed by the
\* min(N - #boosters, #positive neutrals) neutrals of largest strictly positive
\* change_percent; it is never longer than N.
C5_BoosterSelection ==
    rpc = "selected" =>
    LET N == args.count
        nb == Cardinality(Indices(results, "booster"))
        npn == Cardinality(PositiveNeutralIndices(results))
        k == Min2(nb, N)
        m == IF nb >= N THEN 0 ELSE Min2(N - nb, npn)
        top == SubSeq(boosters_sorted, 1, Min2(k, Len(boosters_sorted)))
        fill == SubSeq(boosters_sorted, Min2(k, Len(boosters_sorted)) + 1, Len(boosters_sorted))
    IN  /\ Len(boosters_sorted) = k + m
        /\ Len(boosters_sorted) <= N
        /\ Cardinality(SymbolsOf(boosters_sorted)) = Len(boosters_sorted)
        /\ ElementsOf(boosters_sorted) \subseteq ElementsOf(results)
        /\ \A i \in 1..Len(top) : top[i].category = "booster"
        /\ \A i \in 1..Len(fill) :
              fill[i].category = "neutral" /\ RLess(FromInt(0), fill[i].change_percent)
        /\ Descending(top) /\ Descending(fill)
        /\ \A i \in Indices(results, "booster") :
              results[i] \notin ElementsOf(top) =>
                 \A j \in 1..Len(top) : RLeq(results[i].change_percent, top[j].change_percent)
        /\ \A i \in PositiveNeutralIndices(results) :
              results[i] \notin ElementsOf(fill) =>
                 \A j \in 1..Len(fill) : RLeq(results[i].change_percent, fill[j].change_percent)

\* one booster, N = 3, three positive neutrals: the booster and two of the neutrals
C5_Witness ==
    /\ rpc = "selected"
    /\ args.count = 3
    /\ Cardinality(Indices(results, "booster")) = 1
    /\ Cardinality(PositiveNeutralIndices(results)) = 3
    /\ Len(boosters_sorted) = 3
    /\ boosters_sorted[1].category = "booster"
    /\ boosters_sorted[3].category = "neutral"

\* C6: each per-symbol result is in the final result set at most once; no neutral
\* fills both a booster slot and a loser slot.
C6_EachResultOnce ==
    rpc = "selected" =>
        /\ Cardinality(SymbolsOf(final_results)) = Len(final_results)
        /\ SymbolsOf(boosters_sorted) \cap SymbolsOf(losers_sorted) = {}
        /\ Len(final_results) = Len(boosters_sorted) + Len(losers_sorted)

\* a pass where a neutral fills a booster slot and another one a loser slot
C6_Witness ==
    /\ rpc = "selected"
    /\ \E i \in 1..Len(boosters_sorted) : boosters_sorted[i].category = "neutral"
    /\ \E i \in 1..Len(losers_sorted) : losers_sorted[i].category = "neutral"
    /\ Len(final_results) >= 3

-----------------------------------------------------------------------------
(* Properties of the scan loop (Spec) *)

Listed == {symbols[i] : i \in 1..Len(symbols)}

\* the pass has printed its table
Printed == emitted >= 1

\* task s has finished and main has not yet awaited it
JustFinished(s) == task[s].pc = "done" /\ \E i \in 1..Len(doneq) : doneq[i] = s

\* a response of task s was None or an empty list
FetchFailed(s) == \E i \in 1..Len(task[s].data) : ~Truthy(task[s].data[i])

\* every fetch brought rows, and a division by a zero reference is on the path of
\* the task: by the zero median of the spike filter or by a zero short max
\* average (dual-window mode), by a zero current_max (simple mode)
ZeroReference(s) ==
    /\ ~FetchFailed(s)
    /\ IF args.simple
       THEN /\ Len(task[s].data[1].rows) >= 2
            /\ MaxOf(Highs(SubSeq(task[s].data[1].rows, 1,
                                  Len(task[s].data[1].rows) - 1))) = 0
       ELSE \/ RIsZero(calculate_avg_max(task[s].data[2].rows, AvgRatioNum, AvgRatioDen))
            \/ args.no_spikes /\ RIsZero(trimmed_median(Closes(task[s].data[1].rows)))

\* the results of the tasks that main has awaited and that returned one
AwaitedResults ==
    {task[s].ret : s \in {t \in Listed : /\ task[t].pc = "done"
                                         /\ ~JustFinished(t)
                                         /\ task[t].ret.some}}

\* C4: a symbol whose fetch fails (None or an empty series) or whose computation
\* divides by a zero reference ends its task without a result and is not in the
\* pass's output; the pass goes on, the other symbols are classified and the
\* table is printed from exactly the results of the tasks that returned one.
C4_FailuresAreDropped ==
    /\ \A s \in Listed :
          (JustFinished(s) /\ (FetchFailed(s) \/ ZeroReference(s))) => ~task[s].ret.some
    /\ mpc \in {"gather", "sleep", "done"} =>
          /\ ElementsOf(results) = AwaitedResults
          /\ \A i \in 1..Len(results) : results[i].some /\ results[i].symbol \in Listed
    /\ mpc = "gather" =>
          \/ doneq # <<>>
          \/ \E s \in Listed : task[s].pc = "fly"
    /\ (Printed /\ mpc \in {"sleep", "done"}) =>
          /\ \A s \in Listed : task[s].pc = "done"
          /\ ElementsOf(final_results) \subseteq ElementsOf(results)

\* the last task of a pass of two symbols has finished on a division by a zero
\* reference, after the other task returned a result that main has gathered
C4_Witness ==
    /\ mpc = "gather"
    /\ Len(results) = 1
    /\ \E s \in Listed : JustFinished(s) /\ ZeroReference(s) /\ ~task[s].ret.some

\* a pass of two symbols has printed a table of the one result, the other task
\* having returned none
C4_TableWitness ==
    /\ Printed /\ mpc \in {"sleep", "done"}
    /\ Len(symbols) = 2
    /\ \E s \in Listed : \E t \in Listed :
          /\ ~task[s].ret.some
          /\ task[t].ret.some
          /\ final_results = <<task[t].ret>>

\* requests of the pass that fetch_json has issued and that have not returned
InFlightTasks == {s \in DOMAIN task : task[s].pc = "fly"}

\* C8: a pass prints its table once, after the task of every symbol has finished
\* and been gathered; no request is then in flight and no permit is held.
C8_PrintedOnceAfterAllTasks ==
    /\ emitted <= 1
    /\ (mpc \in {"sleep", "done"} /\ symbols # <<>>) => emitted = 1
    /\ Printed =>
          /\ mpc \in {"sleep", "done"}
          /\ \A s \in Listed : task[s].pc = "done"
          /\ collected = Len(symbols)
          /\ doneq = <<>>
          /\ InFlightTasks = {}
          /\ waiters = <<>>
          /\ sem = MAX_CONCURRENCY

\* the second pass of a watch run over two symbols has printed
C8_Witness ==
    /\ Printed
    /\ mpc = "sleep"
    /\ passes = 2
    /\ Len(symbols) = 2
    /\ Len(final_results) = 2

\* the listing has returned and named no symbol
ListedNothing == mpc \notin {"start", "listing"} /\ symbols = <<>>

\* C9 as stated: in watch mode a run whose listing returned no symbols does not
\* terminate.
C9_AsStated == (args.watch /\ ListedNothing) => mpc # "done"

\* C9 amended: in watch mode too, a run whose listing returned no symbols
\* terminates at once: no pass is started, nothing is printed and the run does
\* not sleep or list again.
C9_EmptyUniverseEndsRun ==
    ListedNothing => (mpc = "done" /\ passes = 0 /\ emitted = 0 /\ ~ENABLED ScanNext)

\* a watch run that has ended on an empty listing
C9_Witness == args.watch /\ ListedNothing /\ mpc = "done"

\* every price of every row that task s was fed is positive
PositivePrices(s) ==
    \A i \in 1..Len(task[s].data) : \A j \in 1..Len(task[s].data[i].rows) :
        /\ task[s].data[i].rows[j].high > 0
        /\ task[s].data[i].rows[j].low > 0
        /\ task[s].data[i].rows[j].close > 0

\* task s has returned a neutral result
ReturnedNeutral(s) ==
    task[s].pc = "done" /\ task[s].ret.some /\ task[s].ret.category = "neutral"

\* current_max of the simple-mode task s, from the response it was fed (lines
\* 133, 138-143); a task that returned a result was fed two rows or more
ObsSimpleCurrentMax(s) ==
    LET rows == task[s].data[1].rows
        rest == SubSeq(rows, 1, Len(rows) - 1)
    IN  IF Len(rest) >= 10 THEN calculate_avg_max(rest, 1, 5)
        ELSE FromInt(MaxOf(Highs(rest)))

\* C11: in simple mode with positive prices, every neutral result has
\* change_percent <= 0: its change is the one against current_max and its price
\* is not above current_max.  So the table of a simple-mode pass fed positive
\* prices has no neutral in a booster slot: the selected boosters are the top
\* boosters of the pass and nothing else, however many slots stay open.
C11_SimpleNeutralsNeverFillBoosters ==
    args.simple =>
        /\ \A s \in Listed :
              (ReturnedNeutral(s) /\ PositivePrices(s)) =>
                  /\ RLeq(task[s].ret.change_percent, FromInt(0))
                  /\ RLeq(task[s].ret.price, ObsSimpleCurrentMax(s))
                  /\ task[s].ret.change_percent
                        = Pct(task[s].ret.price, ObsSimpleCurrentMax(s))
        /\ (Printed /\ \A s \in Listed : PositivePrices(s)) =>
              /\ \A i \in 1..Len(boosters_sorted) : boosters_sorted[i].category = "booster"
              /\ boosters_sorted = Take(SortByChangeDesc(Boosters(results)), args.count)

\* a simple-mode pass fed positive prices has printed with a booster slot left
\* open: of its two results one is a booster and one a neutral of negative
\* change, which went to the losers and not to the open booster slot
C11_Witness ==
    /\ args.simple
    /\ Printed
    /\ args.count = 2
    /\ \A s \in Listed : PositivePrices(s)
    /\ \E s \in Listed : ReturnedNeutral(s) /\ RLess(task[s].ret.change_percent, FromInt(0))
    /\ Len(results) = 2
    /\ Len(boosters_sorted) = 1
    /\ boosters_sorted[1].category = "booster"
    /\ \E i \in 1..Len(losers_sorted) : losers_sorted[i].category = "neutral"

-----------------------------------------------------------------------------
(* Properties of the admission gate (SpecGate, LiveGate) *)

\* requests issued by fetch_json and not yet returned, the listing's included
InFlight == flying[1] + flying[2] + flying[3] + (IF mpc = "listing" THEN 1 ELSE 0)

\* C1: at most 20 requests are in flight at any time, whatever the number of
\* symbols and the mode; the permits are one pool for all symbols and windows.
C1_AtMostTwentyInFlight ==
    /\ InFlight <= MAX_CONCURRENCY
    /\ InFlight + sem = MAX_CONCURRENCY

\* more symbols than permits in dual-window mode: 20 requests in flight, over
\* all three windows, and a task held at the gate
C1_Witness ==
    /\ nsymbols > MAX_CONCURRENCY
    /\ ~args.simple
    /\ InFlight = MAX_CONCURRENCY
    /\ flying[1] > 0 /\ flying[2] > 0 /\ flying[3] > 0
    /\ qstages # <<>>

\* C10: with requests that return and fair scheduling, every pass over a
\* non-empty universe prints its table, also with more symbols than permits;
\* without --watch the run then ends, after exactly one pass; with --watch a
\* further pass starts after each sleep.
C10_EveryPassPrints ==
    /\ (mpc = "gather") ~> (emitted = 1)
    /\ (mpc = "gather" /\ ~args.watch) ~> (mpc = "done" /\ passes = 1 /\ emitted = 1)
    /\ [](mpc = "done" /\ nsymbols > 0 => ~args.watch /\ passes = 1)
    /\ (mpc = "sleep") ~> (mpc = "gather" /\ emitted = 0)
    /\ [](mpc = "sleep" => args.watch)

\* the second pass of a watch run over more symbols than permits has printed
C10_Witness ==
    /\ nsymbols > MAX_CONCURRENCY
    /\ args.watch
    /\ passes = 2
    /\ mpc = "sleep"
    /\ emitted = 1

====
